---- MODULE Spec2Model ----
(***************************************************************************)
(* github-committer: the commit orchestration of main() and the GraphQL    *)
(* operations of gh-graphql.go, run against a remote repository that other *)
(* writers may change while the run is in progress.                        *)
(*                                                                         *)
(* src/main.go holds two programs: main() at lines 23-93 (with fetchRemote *)
(* and the operations of gh-graphql.go) and the single-file program whose  *)
(* main() is at lines 176-250.  `variant` says which of the two runs.      *)
(***************************************************************************)
EXTENDS Integers, Sequences, FiniteSets, TLC

VARIABLES
    variant,      \* which main() runs: "main23" or "main176"
    opts,         \* Opts: Repository, BranchName, Message, PullRequest
    worktree,     \* the working tree's status: path -> [Staging, Worktree]
    disk,         \* the files on disk: path -> [present, readable, bytes]
    localRefs,    \* the local reference store: ref name -> object id
    remoteRefs,   \* the remote's refs: ref name -> object id
    pulls,        \* the remote's pull requests
    commits,      \* the commits the remote created on the target branch
    nextOid,      \* the next object id the remote hands out
    otherWrites,  \* writes of other writers so far
    pc,           \* main()'s position
    status,       \* main's status (None until openRepository returned it)
    todo,         \* addChanges: the names the range loop has not visited
    changes,      \* main's changes
    oid,          \* main's oid (None until getMainOid returned)
    repoId,       \* main's repoId
    branchExists, \* main's branchExists (None until CheckBranchExists returned)
    revision,     \* main's revision (None while nil)
    fetchErr,     \* what fetchRemote returned (None until it ran)
    resolved,     \* the steps of branch target resolution main has run
    inflight,     \* the remote call that is outstanding (None if there is none)
    calls,        \* every remote call issued, in order
    replies,      \* the err each of them returned, in order
    tipAtResolution, \* the target branch's remote tip when it was resolved
    exit          \* how the process ended (None while it runs)

vars == <<variant, opts, worktree, disk, localRefs, remoteRefs, pulls, commits,
          nextOid, otherWrites, pc, status, todo, changes, oid, repoId,
          branchExists, revision, fetchErr, resolved, inflight, calls,
          replies, tipAtResolution, exit>>

(***************************************************************************)
(* Bounds.                                                                 *)
(***************************************************************************)
NumOids == 2          \* object ids that exist before the run: 1..NumOids
MaxOtherWrites == 2   \* writes other writers make during one run
MaxLen == 3           \* length of a file, in bytes

None == <<>>
Some(x) == <<x>>
Val(o) == o[1]

(***************************************************************************)
(* Strings that the code takes apart are sequences of characters.          *)
(***************************************************************************)
Sep == "/"
RepoOk == <<"o", "/", "r">>
RepoNoSep == <<"o", "r">>
RepoUnknown == <<"x", "/", "r">>
RepoEmpty == <<>>
Repositories == {RepoOk, RepoNoSep, RepoUnknown, RepoEmpty}

\* strings.Split(s, "/")
RECURSIVE SplitAcc(_, _, _)
SplitAcc(s, sep, cur) ==
    IF s = <<>> THEN <<cur>>
    ELSE IF Head(s) = sep THEN <<cur>> \o SplitAcc(Tail(s), sep, <<>>)
    ELSE SplitAcc(Tail(s), sep, Append(cur, Head(s)))

Split(s, sep) == SplitAcc(s, sep, <<>>)

\* strings.Split(opts.Repository, "/")[0] and [1] are both in range
SplitIndexable(o) == Len(Split(o.Repository, Sep)) >= 2

BranchNames == {"feature"}
Message == "updated with github-signer"

\* "refs/heads/" + name, "refs/remotes/origin/" + name, and the fixed names
HeadsRef(name) == <<"refs/heads/", name>>
TrackingRef(name) == <<"refs/remotes/origin/", name>>
MainRef == <<"refs/heads/", "main">>
HEADRef == <<"HEAD", "">>
RefHeadMain == <<"refs/head/", "main">>

(***************************************************************************)
(* The working tree: go-git's StatusCode and the files on disk.            *)
(***************************************************************************)
Unmodified == " "
Untracked == "?"
Modified == "M"
Added == "A"
Deleted == "D"
Renamed == "R"

Paths == {"a.txt", "b.txt"}

\* the (Staging, Worktree) pairs a git status reports
StatusPairs ==
    { <<Modified, Unmodified>>, <<Unmodified, Modified>>, <<Modified, Modified>>,
      <<Added, Unmodified>>, <<Added, Modified>>, <<Added, Deleted>>,
      <<Modified, Deleted>>, <<Deleted, Unmodified>>, <<Unmodified, Deleted>>,
      <<Untracked, Untracked>>, <<Renamed, Unmodified>>, <<Renamed, Modified>> }

FileStatus(pair) == [Staging |-> pair[1], Worktree |-> pair[2]]

RECURSIVE SeqsUpTo(_, _)
SeqsUpTo(S, n) ==
    IF n = 0 THEN {<<>>}
    ELSE LET shorter == SeqsUpTo(S, n - 1)
         IN  shorter \cup {Append(s, x) : s \in shorter, x \in S}

ByteVals == {77, 255}
Contents == SeqsUpTo(ByteVals, MaxLen)

File(bytes, readable) == [present |-> TRUE, readable |-> readable, bytes |-> bytes]
NoFile == [present |-> FALSE, readable |-> FALSE, bytes |-> <<>>]

\* the files a path with this status can have on disk: none once the
\* working tree lost it
FilesFor(pair, contents) ==
    IF pair[2] = Deleted THEN {NoFile}
    ELSE {File(b, r) : b \in contents, r \in BOOLEAN}

(***************************************************************************)
(* base64.StdEncoding.EncodeToString: the output is a sequence of the      *)
(* alphabet's indices 0..63, with Pad for "=".                             *)
(***************************************************************************)
Pad == 64

RECURSIVE EncodeToString(_)
EncodeToString(b) ==
    IF Len(b) = 0 THEN <<>>
    ELSE IF Len(b) = 1 THEN
        << b[1] \div 4, (b[1] % 4) * 16, Pad, Pad >>
    ELSE IF Len(b) = 2 THEN
        << b[1] \div 4, (b[1] % 4) * 16 + (b[2] \div 16), (b[2] % 16) * 4, Pad >>
    ELSE
        << b[1] \div 4, (b[1] % 4) * 16 + (b[2] \div 16),
           (b[2] % 16) * 4 + (b[3] \div 64), b[3] % 64 >>
        \o EncodeToString(SubSeq(b, 4, Len(b)))

\* b, _ := os.ReadFile(name): nil when the file cannot be read
ReadFile(name) ==
    IF disk[name].present /\ disk[name].readable THEN disk[name].bytes ELSE <<>>

\* the condition without its third disjunct
QualifiesNoStagedModified(st) ==
    st.Worktree = Modified \/ st.Staging = Added

\* the condition of addChanges' if
Qualifies(st) ==
    st.Worktree = Modified \/ st.Staging = Added \/ st.Staging = Modified

FileAddition(name) ==
    [Path |-> name, Contents |-> EncodeToString(ReadFile(name))]

(***************************************************************************)
(* Process exit.                                                           *)
(***************************************************************************)
Exit(code, why, stage) == Some([code |-> code, why |-> why, stage |-> stage])
\* log.Fatalf: the message names the stage, the status is 1
Fatal(stage) == Exit(1, "fatal", stage)
\* a run-time panic (index out of range): status 2
Panic(stage) == Exit(2, "panic", stage)

Exited == exit # None
ExitCode == Val(exit).code

(***************************************************************************)
(* Initial states.                                                         *)
(***************************************************************************)
Variants == {"main23", "main176"}

InitOids == 1 .. NumOids
\* the default branch's tip on the remote: the newest of the initial ids
MainTip == NumOids

RepoIdOf(owner, name) == <<"id", owner, name>>
\* the one repository the remote knows
KnownOwner == <<"o">>
KnownName == <<"r">>

\* a reference store with the refs of `names` that `pick` gives an id
RefStore(names, pick) ==
    [r \in {n \in names : pick[n] # None} |-> Val(pick[r])]

OptOids == {None} \cup {Some(o) : o \in InitOids}

InitWith(wt, dk, repos, optOids) ==
    /\ variant \in Variants
    /\ opts \in [Repository : repos, BranchName : BranchNames,
                 Message : {Message}, PullRequest : BOOLEAN]
    /\ worktree = wt
    /\ disk = dk
    /\ \E pick \in [{HEADRef, RefHeadMain, TrackingRef(opts.BranchName)} -> optOids] :
           localRefs = RefStore(DOMAIN pick, pick)
    /\ \E tip \in optOids :
           remoteRefs = RefStore({MainRef, HeadsRef(opts.BranchName)},
                                 [r \in {MainRef, HeadsRef(opts.BranchName)} |->
                                     IF r = MainRef THEN Some(MainTip) ELSE tip])
    /\ pulls = {}
    /\ commits = <<>>
    /\ nextOid = NumOids + 1
    /\ otherWrites = 0
    /\ pc = "parse"
    /\ status = None
    /\ todo = {}
    /\ changes = <<>>
    /\ oid = None
    /\ repoId = None
    /\ branchExists = None
    /\ revision = None
    /\ fetchErr = None
    /\ resolved = {}
    /\ inflight = None
    /\ calls = <<>>
    /\ replies = <<>>
    /\ tipAtResolution = None
    /\ exit = None

\* the working trees of the orchestration's runs
RunStatuses ==
    { [p \in {} |-> FileStatus(<<Unmodified, Unmodified>>)],
      [p \in {"a.txt"} |-> FileStatus(<<Untracked, Untracked>>)],
      [p \in {"a.txt"} |-> FileStatus(<<Deleted, Unmodified>>)],
      [p \in {"a.txt"} |-> FileStatus(<<Added, Unmodified>>)],
      [p \in Paths |-> FileStatus(<<Unmodified, Modified>>)] }

RunDisk ==
    [p \in Paths |-> IF p = "a.txt" THEN File(<<77>>, TRUE) ELSE File(<<77, 255>>, TRUE)]

Init == \E wt \in RunStatuses : InitWith(wt, RunDisk, Repositories, OptOids)

(***************************************************************************)
(* main, up to the changes: flag parsing, openRepository, addChanges.      *)
(***************************************************************************)
localVars == <<status, todo, changes, oid, repoId, branchExists, revision, fetchErr,
               resolved>>
remoteVars == <<remoteRefs, pulls, commits, nextOid, otherWrites>>
netVars == <<inflight, calls, replies>>
envVars == <<variant, opts, worktree, disk>>

\* parser.Parse() and the switch on its error
Parse ==
    /\ pc = "parse" /\ ~Exited
    /\ \E r \in {"ok", "help", "flagerr"} :
          \/ r = "ok" /\ pc' = "open" /\ exit' = exit
          \/ r = "help" /\ pc' = "exited" /\ exit' = Exit(0, "help", "parse")
          \/ r = "flagerr" /\ pc' = "exited" /\ exit' = Exit(1, "flagerr", "parse")
    /\ UNCHANGED <<envVars, localRefs, remoteVars, localVars, netVars, tipAtResolution>>

\* repo, status, err := openRepository()
OpenRepository ==
    /\ pc = "open" /\ ~Exited
    /\ \E ok \in BOOLEAN :
          IF ok
          THEN /\ status' = Some(worktree)
               /\ todo' = DOMAIN worktree
               /\ pc' = "addChanges"
               /\ exit' = exit
          ELSE /\ pc' = "exited"
               /\ exit' = Fatal("open")
               /\ UNCHANGED <<status, todo>>
    /\ UNCHANGED <<envVars, localRefs, remoteVars, changes, oid, repoId,
                   branchExists, revision, fetchErr, resolved, netVars, tipAtResolution>>

\* one iteration of addChanges' range loop, in the map's order
AddChangesStep ==
    /\ pc = "addChanges" /\ ~Exited
    /\ \E name \in todo :
          /\ todo' = todo \ {name}
          /\ changes' = IF Qualifies(Val(status)[name])
                        THEN Append(changes, FileAddition(name))
                        ELSE changes
    /\ UNCHANGED <<envVars, localRefs, remoteVars, pc, status, oid, repoId,
                   branchExists, revision, fetchErr, resolved, netVars, tipAtResolution, exit>>

\* addChanges without its early exit
AddChangesReturnNoExit ==
    /\ pc = "addChanges" /\ ~Exited
    /\ todo = {}
    /\ pc' = "getMainOid" /\ exit' = exit
    /\ UNCHANGED <<envVars, localRefs, remoteVars, localVars, netVars, tipAtResolution>>

\* the end of addChanges: os.Exit(0) on no changes, else return
AddChangesReturn ==
    /\ pc = "addChanges" /\ ~Exited
    /\ todo = {}
    /\ IF Len(changes) = 0
       THEN pc' = "exited" /\ exit' = Exit(0, "nothing", "addChanges")
       ELSE pc' = "getMainOid" /\ exit' = exit
    /\ UNCHANGED <<envVars, localRefs, remoteVars, localVars, netVars, tipAtResolution>>

(***************************************************************************)
(* The remote service: what it answers to the two queries and the three    *)
(* mutations.  Object ids are the hex strings the service reports; the     *)
(* model keeps them as opaque numbers.                                     *)
(***************************************************************************)
\* the zero value of githubv4.GitObjectID, left when the queried ref is null
EmptyOid == 0

Known(owner, name) == owner = KnownOwner /\ name = KnownName

\* repository(owner, name) { id, ref("refs/heads/main") { target { oid } } }
RemoteMainOid(req) ==
    IF ~Known(req.owner, req.name)
    THEN [err |-> "notfound", oid |-> EmptyOid, id |-> None]
    ELSE [err |-> "nil",
          oid |-> IF MainRef \in DOMAIN remoteRefs THEN remoteRefs[MainRef] ELSE EmptyOid,
          id  |-> Some(RepoIdOf(req.owner, req.name))]

\* repository(owner, name) { ref(qualifiedName: $branchName) { name } }:
\* the ref's name, "" when the ref is null
RemoteRefName(req) ==
    IF ~Known(req.owner, req.name)
    THEN [err |-> "notfound", name |-> ""]
    ELSE [err |-> "nil",
          name |-> IF req.branchName \in DOMAIN remoteRefs THEN req.branchName[2] ELSE ""]

\* createRef(input): refuses a name that exists and an object it does not have
RemoteCreateRef(input) ==
    IF input.RepositoryID # Some(RepoIdOf(KnownOwner, KnownName))
    THEN [err |-> "notfound", refs |-> remoteRefs]
    ELSE IF input.Name \in DOMAIN remoteRefs
    THEN [err |-> "exists", refs |-> remoteRefs]
    ELSE IF input.Oid = EmptyOid
    THEN [err |-> "invalid", refs |-> remoteRefs]
    ELSE [err |-> "nil",
          refs |-> [r \in DOMAIN remoteRefs \cup {input.Name} |->
                       IF r = input.Name THEN input.Oid ELSE remoteRefs[r]]]

\* createCommitOnBranch(input): the optimistic-concurrency check on
\* expectedHeadOid, then a new commit on top of the branch
RemoteCreateCommitOnBranch(input) ==
    LET parts  == Split(input.Branch.RepositoryNameWithOwner, Sep)
        ref    == HeadsRef(input.Branch.BranchName)
        reject(e) == [err |-> e, refs |-> remoteRefs, commits |-> commits, next |-> nextOid]
    IN  IF Len(parts) # 2 \/ ~Known(parts[1], parts[2]) THEN reject("notfound")
        ELSE IF ref \notin DOMAIN remoteRefs THEN reject("notfound")
        ELSE IF input.ExpectedHeadOid # remoteRefs[ref] THEN reject("conflict")
        ELSE [err |-> "nil",
              refs |-> [remoteRefs EXCEPT ![ref] = nextOid],
              commits |-> Append(commits, [oid |-> nextOid, parent |-> remoteRefs[ref],
                                           additions |-> input.FileChanges.Additions,
                                           headline |-> input.Message.Headline]),
              next |-> nextOid + 1]

\* createPullRequest(input): refuses a head that does not exist and a pull
\* request that is already open for the same head and base
RemoteCreatePullRequest(input) ==
    IF input.RepositoryID # Some(RepoIdOf(KnownOwner, KnownName))
    THEN [err |-> "notfound", pulls |-> pulls]
    ELSE IF HeadsRef(input.HeadRefName) \notin DOMAIN remoteRefs
    THEN [err |-> "invalid", pulls |-> pulls]
    ELSE IF \E pr \in pulls : pr.HeadRefName = input.HeadRefName
                              /\ pr.BaseRefName = input.BaseRefName
    THEN [err |-> "duplicate", pulls |-> pulls]
    ELSE [err |-> "nil", pulls |-> pulls \cup {input}]

\* other writers run only while the run talks to the remote
RemotePhase ==
    pc \in {"getMainOid", "getMainOid_wait", "CheckBranchExists",
            "CheckBranchExists_wait", "CreateBranch", "CreateBranch_wait", "Head",
            "fetchRemote", "Reference", "DoCommit", "DoCommit_wait",
            "CreatePullRequest", "CreatePullRequest_wait"}

\* another writer pushes a commit to the target branch
OtherPush ==
    /\ RemotePhase /\ otherWrites < MaxOtherWrites
    /\ HeadsRef(opts.BranchName) \in DOMAIN remoteRefs
    /\ remoteRefs' = [remoteRefs EXCEPT ![HeadsRef(opts.BranchName)] = nextOid]
    /\ nextOid' = nextOid + 1
    /\ otherWrites' = otherWrites + 1
    /\ UNCHANGED <<envVars, localRefs, pulls, commits, pc, localVars, netVars,
                   tipAtResolution, exit>>

\* another writer creates the target branch, at the default branch's tip
OtherCreate ==
    /\ RemotePhase /\ otherWrites < MaxOtherWrites
    /\ HeadsRef(opts.BranchName) \notin DOMAIN remoteRefs
    /\ remoteRefs' = [r \in DOMAIN remoteRefs \cup {HeadsRef(opts.BranchName)} |->
                         IF r = HeadsRef(opts.BranchName) THEN remoteRefs[MainRef]
                         ELSE remoteRefs[r]]
    /\ otherWrites' = otherWrites + 1
    /\ UNCHANGED <<envVars, localRefs, pulls, commits, nextOid, pc, localVars, netVars,
                   tipAtResolution, exit>>

(***************************************************************************)
(* The GraphQL operations of gh-graphql.go, each in two steps: the call    *)
(* builds its variables or input and sends the request, the return is the  *)
(* service's answer (or a transport error) and what main does with it.     *)
(***************************************************************************)
Send(req) ==
    /\ inflight' = Some(req)
    /\ calls' = Append(calls, req)
    /\ replies' = replies

Receive(err) ==
    /\ inflight' = None
    /\ replies' = Append(replies, err)
    /\ calls' = calls

Request == Val(inflight)

\* log.Fatalf at the call's site in main
FatalAt(stage) == pc' = "exited" /\ exit' = Fatal(stage)

\* getMainOid's variables
MainOidVariables(o) ==
    [op |-> "getMainOid",
     owner |-> Split(o.Repository, Sep)[1],
     name |-> Split(o.Repository, Sep)[2]]

\* CheckBranchExists' variables
BranchExistsVariables(o) ==
    [op |-> "CheckBranchExists",
     owner |-> Split(o.Repository, Sep)[1],
     name |-> Split(o.Repository, Sep)[2],
     branchName |-> HeadsRef(o.BranchName)]

\* CreateBranch's githubv4.CreateRefInput
CreateRefInput(o, id, base) ==
    [RepositoryID |-> id, Name |-> HeadsRef(o.BranchName), Oid |-> base]

\* DoCommit's githubv4.CreateCommitOnBranchInput
CreateCommitOnBranchInput(o, adds, rev) ==
    [Branch |-> [RepositoryNameWithOwner |-> o.Repository, BranchName |-> o.BranchName],
     Message |-> [Headline |-> o.Message],
     FileChanges |-> [Additions |-> adds],
     ExpectedHeadOid |-> rev]

\* a pull request input with base and head exchanged
CreatePullRequestInputSwapped(o, id) ==
    [RepositoryID |-> id, BaseRefName |-> o.BranchName, HeadRefName |-> "main",
     Title |-> o.Message]

\* CreatePullRequest's githubv4.CreatePullRequestInput
CreatePullRequestInput(o, id) ==
    [RepositoryID |-> id, BaseRefName |-> "main", HeadRefName |-> o.BranchName,
     Title |-> o.Message]

\* getMainOid that does not wait for the answer
GetMainOidCallNoWait ==
    /\ pc = "getMainOid" /\ ~Exited
    /\ SplitIndexable(opts)
    /\ Send(MainOidVariables(opts))
    /\ pc' = "CheckBranchExists"
    /\ UNCHANGED <<envVars, localRefs, remoteVars, localVars, tipAtResolution, exit>>

\* getMainOid that checks the identifier and reports a malformed one
GetMainOidCallValidated ==
    /\ pc = "getMainOid" /\ ~Exited
    /\ IF SplitIndexable(opts)
       THEN /\ Send(MainOidVariables(opts))
            /\ pc' = "getMainOid_wait"
            /\ exit' = exit
       ELSE /\ FatalAt("getMainOid")
            /\ UNCHANGED netVars
    /\ UNCHANGED <<envVars, localRefs, remoteVars, localVars, tipAtResolution>>

\* oid, repoId, err := getMainOid(ctx, client, opts): up to client.Query
GetMainOidCall ==
    /\ pc = "getMainOid" /\ ~Exited
    /\ IF SplitIndexable(opts)
       THEN /\ Send(MainOidVariables(opts))
            /\ pc' = "getMainOid_wait"
            /\ exit' = exit
       ELSE /\ pc' = "exited"
            /\ exit' = Panic("getMainOid")
            /\ UNCHANGED netVars
    /\ UNCHANGED <<envVars, localRefs, remoteVars, localVars, tipAtResolution>>

\* main without the test of getMainOid's err
GetMainOidReturnUnchecked ==
    /\ pc = "getMainOid_wait" /\ ~Exited
    /\ \E net \in BOOLEAN :
          LET r == IF net THEN RemoteMainOid(Request)
                   ELSE [err |-> "transport", oid |-> EmptyOid, id |-> None]
          IN  /\ Receive(r.err)
              /\ oid' = Some(r.oid)
              /\ repoId' = r.id
              /\ pc' = "CheckBranchExists"
              /\ exit' = exit
    /\ UNCHANGED <<envVars, localRefs, remoteVars, status, todo, changes,
                   branchExists, revision, fetchErr, resolved, tipAtResolution>>

GetMainOidReturn ==
    /\ pc = "getMainOid_wait" /\ ~Exited
    /\ \E net \in BOOLEAN :
          LET r == IF net THEN RemoteMainOid(Request)
                   ELSE [err |-> "transport", oid |-> EmptyOid, id |-> None]
          IN  /\ Receive(r.err)
              /\ IF r.err # "nil"
                 THEN FatalAt("getMainOid") /\ UNCHANGED <<oid, repoId>>
                 ELSE /\ oid' = Some(r.oid)
                      /\ repoId' = r.id
                      /\ pc' = "CheckBranchExists"
                      /\ exit' = exit
    /\ UNCHANGED <<envVars, localRefs, remoteVars, status, todo, changes,
                   branchExists, revision, fetchErr, resolved, tipAtResolution>>

\* branchExists, err := CheckBranchExists(ctx, client, opts): up to client.Query
CheckBranchExistsCall ==
    /\ pc = "CheckBranchExists" /\ ~Exited
    /\ IF SplitIndexable(opts)
       THEN /\ Send(BranchExistsVariables(opts))
            /\ pc' = "CheckBranchExists_wait"
            /\ exit' = exit
       ELSE /\ pc' = "exited"
            /\ exit' = Panic("CheckBranchExists")
            /\ UNCHANGED netVars
    /\ UNCHANGED <<envVars, localRefs, remoteVars, localVars, tipAtResolution>>

\* main that creates the branch whatever CheckBranchExists returned
AfterBranchExistsAlwaysCreate(exists) == "CreateBranch"

\* where main goes once it knows whether the branch exists
AfterBranchExists(exists) ==
    IF ~exists THEN "CreateBranch"
    ELSE IF variant = "main23" THEN "fetchRemote"
    ELSE "Reference"

\* CheckBranchExists that finds every branch
RefFoundAlways(name) == TRUE

\* CheckBranchExists: query.Repository.Ref.Name != ""
RefFound(name) == name # ""

\* main's branchExists and err after the call: (false, err) when the query
\* failed, else (RefFound, nil)
CheckBranchExistsReturn ==
    /\ pc = "CheckBranchExists_wait" /\ ~Exited
    /\ \E net \in BOOLEAN :
          LET r == IF net THEN RemoteRefName(Request)
                   ELSE [err |-> "transport", name |-> ""]
          IN  /\ Receive(r.err)
              /\ IF r.err # "nil"
                 THEN /\ FatalAt("CheckBranchExists")
                      /\ branchExists' = Some(FALSE)
                 ELSE /\ branchExists' = Some(RefFound(r.name))
                      /\ pc' = AfterBranchExists(RefFound(r.name))
                      /\ exit' = exit
    /\ UNCHANGED <<envVars, localRefs, remoteVars, status, todo, changes, oid, repoId,
                   revision, fetchErr, resolved, tipAtResolution>>

\* err = CreateBranch(ctx, client, opts, repoId, oid): up to client.Mutate
CreateBranchCall ==
    /\ pc = "CreateBranch" /\ ~Exited
    /\ Send([op |-> "CreateBranch", input |-> CreateRefInput(opts, repoId, Val(oid))])
    /\ pc' = "CreateBranch_wait"
    /\ UNCHANGED <<envVars, localRefs, remoteVars, localVars, tipAtResolution, exit>>

\* main without the test of CreateBranch's err
CreateBranchReturnUnchecked ==
    /\ pc = "CreateBranch_wait" /\ ~Exited
    /\ \E net \in BOOLEAN :
          LET r == IF net THEN RemoteCreateRef(Request.input)
                   ELSE [err |-> "transport", refs |-> remoteRefs]
          IN  /\ Receive(r.err)
              /\ remoteRefs' = r.refs
              /\ pc' = "Head"
              /\ exit' = exit
    /\ UNCHANGED <<envVars, localRefs, pulls, commits, nextOid, otherWrites, localVars,
                   tipAtResolution>>

\* main that creates the branch again after a failure
CreateBranchReturnRetry ==
    /\ pc = "CreateBranch_wait" /\ ~Exited
    /\ \E net \in BOOLEAN :
          LET r == IF net THEN RemoteCreateRef(Request.input)
                   ELSE [err |-> "transport", refs |-> remoteRefs]
          IN  /\ Receive(r.err)
              /\ remoteRefs' = r.refs
              /\ pc' = IF r.err # "nil" THEN "CreateBranch" ELSE "Head"
              /\ exit' = exit
    /\ UNCHANGED <<envVars, localRefs, pulls, commits, nextOid, otherWrites, localVars,
                   tipAtResolution>>

CreateBranchReturn ==
    /\ pc = "CreateBranch_wait" /\ ~Exited
    /\ \E net \in BOOLEAN :
          LET r == IF net THEN RemoteCreateRef(Request.input)
                   ELSE [err |-> "transport", refs |-> remoteRefs]
          IN  /\ Receive(r.err)
              /\ remoteRefs' = r.refs
              /\ IF r.err # "nil"
                 THEN FatalAt("CreateBranch")
                 ELSE pc' = "Head" /\ exit' = exit
    /\ UNCHANGED <<envVars, localRefs, pulls, commits, nextOid, otherWrites, localVars,
                   tipAtResolution>>

\* the reference the new-branch path reads: repo.Head() in main23,
\* repo.Reference("refs/head/main", true) in main176
NewBranchRef == IF variant = "main23" THEN HEADRef ELSE RefHeadMain

HeadRevision ==
    /\ pc = "Head" /\ ~Exited
    /\ IF NewBranchRef \in DOMAIN localRefs
       THEN /\ revision' = Some(localRefs[NewBranchRef])
            /\ pc' = "DoCommit"
            /\ exit' = exit
       ELSE FatalAt("Head") /\ UNCHANGED revision
    /\ resolved' = resolved \cup {"Head"}
    /\ UNCHANGED <<envVars, localRefs, remoteVars, status, todo, changes, oid, repoId,
                   branchExists, fetchErr, netVars, tipAtResolution>>

\* the tracking refs a successful fetch leaves: every remote head's tip
Fetched ==
    LET heads == {r \in DOMAIN remoteRefs : r[1] = "refs/heads/"}
        track(r) == TrackingRef(r[2])
    IN  [l \in DOMAIN localRefs \cup {track(r) : r \in heads} |->
            IF \E r \in heads : track(r) = l
            THEN remoteRefs[CHOOSE r \in heads : track(r) = l]
            ELSE localRefs[l]]

\* main that ends the run when fetchRemote fails
FetchRemoteFatal ==
    /\ pc = "fetchRemote" /\ ~Exited
    /\ \E ok \in BOOLEAN :
          IF ok
          THEN /\ localRefs' = Fetched
               /\ fetchErr' = Some(IF Fetched = localRefs THEN "already up-to-date"
                                   ELSE "nil")
               /\ pc' = "Reference"
               /\ exit' = exit
          ELSE /\ localRefs' = localRefs
               /\ fetchErr' = Some("error")
               /\ FatalAt("fetchRemote")
    /\ tipAtResolution' = IF HeadsRef(opts.BranchName) \in DOMAIN remoteRefs
                          THEN Some(remoteRefs[HeadsRef(opts.BranchName)]) ELSE None
    /\ resolved' = resolved \cup {"fetchRemote"}
    /\ UNCHANGED <<envVars, remoteVars, status, todo, changes, oid, repoId,
                   branchExists, revision, netVars>>

\* err = fetchRemote(repo), logged and not fatal (main23 only)
FetchRemote ==
    /\ pc = "fetchRemote" /\ ~Exited
    /\ \E ok \in BOOLEAN :
          IF ok
          THEN /\ localRefs' = Fetched
               /\ fetchErr' = Some(IF Fetched = localRefs THEN "already up-to-date"
                                   ELSE "nil")
          ELSE /\ localRefs' = localRefs
               /\ fetchErr' = Some("error")
    /\ tipAtResolution' = IF HeadsRef(opts.BranchName) \in DOMAIN remoteRefs
                          THEN Some(remoteRefs[HeadsRef(opts.BranchName)]) ELSE None
    /\ resolved' = resolved \cup {"fetchRemote"}
    /\ pc' = "Reference"
    /\ UNCHANGED <<envVars, remoteVars, status, todo, changes, oid, repoId,
                   branchExists, revision, netVars, exit>>

\* main that fetches again until the tracking reference is there
TrackingReferenceRefetch ==
    /\ pc = "Reference" /\ ~Exited
    /\ IF TrackingRef(opts.BranchName) \in DOMAIN localRefs
       THEN /\ revision' = Some(localRefs[TrackingRef(opts.BranchName)])
            /\ pc' = "DoCommit"
       ELSE /\ pc' = "fetchRemote"
            /\ UNCHANGED revision
    /\ exit' = exit
    /\ tipAtResolution' =
          IF variant = "main23" THEN tipAtResolution
          ELSE IF HeadsRef(opts.BranchName) \in DOMAIN remoteRefs
          THEN Some(remoteRefs[HeadsRef(opts.BranchName)]) ELSE None
    /\ resolved' = resolved \cup {"Reference"}
    /\ UNCHANGED <<envVars, localRefs, remoteVars, status, todo, changes, oid, repoId,
                   branchExists, fetchErr, netVars>>

\* revision, err = repo.Reference("refs/remotes/origin/" + opts.BranchName, true)
TrackingReference ==
    /\ pc = "Reference" /\ ~Exited
    /\ IF TrackingRef(opts.BranchName) \in DOMAIN localRefs
       THEN /\ revision' = Some(localRefs[TrackingRef(opts.BranchName)])
            /\ pc' = "DoCommit"
            /\ exit' = exit
       ELSE FatalAt("Reference") /\ UNCHANGED revision
    /\ tipAtResolution' =
          IF variant = "main23" THEN tipAtResolution
          ELSE IF HeadsRef(opts.BranchName) \in DOMAIN remoteRefs
          THEN Some(remoteRefs[HeadsRef(opts.BranchName)]) ELSE None
    /\ resolved' = resolved \cup {"Reference"}
    /\ UNCHANGED <<envVars, localRefs, remoteVars, status, todo, changes, oid, repoId,
                   branchExists, fetchErr, netVars>>

\* err = DoCommit(ctx, client, changes, opts, revision): up to client.Mutate
DoCommitCall ==
    /\ pc = "DoCommit" /\ ~Exited
    /\ Send([op |-> "DoCommit",
             input |-> CreateCommitOnBranchInput(opts, changes, Val(revision))])
    /\ pc' = "DoCommit_wait"
    /\ UNCHANGED <<envVars, localRefs, remoteVars, localVars, tipAtResolution, exit>>

\* where main goes after the commit
AfterCommit(o) == IF o.PullRequest THEN "CreatePullRequest" ELSE "exited"

\* main without the test of DoCommit's err
DoCommitReturnUnchecked ==
    /\ pc = "DoCommit_wait" /\ ~Exited
    /\ \E net \in BOOLEAN :
          LET r == IF net THEN RemoteCreateCommitOnBranch(Request.input)
                   ELSE [err |-> "transport", refs |-> remoteRefs,
                         commits |-> commits, next |-> nextOid]
          IN  /\ Receive(r.err)
              /\ remoteRefs' = r.refs
              /\ commits' = r.commits
              /\ nextOid' = r.next
              /\ pc' = AfterCommit(opts)
              /\ exit' = IF AfterCommit(opts) = "exited"
                         THEN Exit(0, "success", "main") ELSE exit
    /\ UNCHANGED <<envVars, localRefs, pulls, otherWrites, localVars, tipAtResolution>>

\* main that submits the commit again after a failure
DoCommitReturnRetry ==
    /\ pc = "DoCommit_wait" /\ ~Exited
    /\ \E net \in BOOLEAN :
          LET r == IF net THEN RemoteCreateCommitOnBranch(Request.input)
                   ELSE [err |-> "transport", refs |-> remoteRefs,
                         commits |-> commits, next |-> nextOid]
          IN  /\ Receive(r.err)
              /\ remoteRefs' = r.refs
              /\ commits' = r.commits
              /\ nextOid' = r.next
              /\ IF r.err # "nil"
                 THEN pc' = "DoCommit" /\ exit' = exit
                 ELSE /\ pc' = AfterCommit(opts)
                      /\ exit' = IF AfterCommit(opts) = "exited"
                                 THEN Exit(0, "success", "main") ELSE exit
    /\ UNCHANGED <<envVars, localRefs, pulls, otherWrites, localVars, tipAtResolution>>

DoCommitReturn ==
    /\ pc = "DoCommit_wait" /\ ~Exited
    /\ \E net \in BOOLEAN :
          LET r == IF net THEN RemoteCreateCommitOnBranch(Request.input)
                   ELSE [err |-> "transport", refs |-> remoteRefs,
                         commits |-> commits, next |-> nextOid]
          IN  /\ Receive(r.err)
              /\ remoteRefs' = r.refs
              /\ commits' = r.commits
              /\ nextOid' = r.next
              /\ IF r.err # "nil"
                 THEN FatalAt("DoCommit")
                 ELSE /\ pc' = AfterCommit(opts)
                      /\ exit' = IF AfterCommit(opts) = "exited"
                                 THEN Exit(0, "success", "main") ELSE exit
    /\ UNCHANGED <<envVars, localRefs, pulls, otherWrites, localVars, tipAtResolution>>

\* CreatePullRequest(ctx, client, opts, repoId): up to client.Mutate
CreatePullRequestCall ==
    /\ pc = "CreatePullRequest" /\ ~Exited
    /\ Send([op |-> "CreatePullRequest", input |-> CreatePullRequestInput(opts, repoId)])
    /\ pc' = "CreatePullRequest_wait"
    /\ UNCHANGED <<envVars, localRefs, remoteVars, localVars, tipAtResolution, exit>>

\* the err main tests after CreatePullRequest: main23 assigns the call's
\* result to err; main176 drops it, and err is still DoCommit's nil
PullRequestErr(e) == IF variant = "main23" THEN e ELSE "nil"

CreatePullRequestReturn ==
    /\ pc = "CreatePullRequest_wait" /\ ~Exited
    /\ \E net \in BOOLEAN :
          LET r == IF net THEN RemoteCreatePullRequest(Request.input)
                   ELSE [err |-> "transport", pulls |-> pulls]
          IN  /\ Receive(r.err)
              /\ pulls' = r.pulls
              /\ pc' = "exited"
              /\ exit' = IF PullRequestErr(r.err) # "nil"
                         THEN Fatal("CreatePullRequest")
                         ELSE Exit(0, "success", "main")
    /\ UNCHANGED <<envVars, localRefs, remoteRefs, commits, nextOid, otherWrites,
                   localVars, tipAtResolution>>

\* the steps of main
MainNext ==
    \/ Parse
    \/ OpenRepository
    \/ AddChangesStep
    \/ AddChangesReturn
    \/ GetMainOidCall
    \/ GetMainOidReturn
    \/ CheckBranchExistsCall
    \/ CheckBranchExistsReturn
    \/ CreateBranchCall
    \/ CreateBranchReturn
    \/ HeadRevision
    \/ FetchRemote
    \/ TrackingReference
    \/ DoCommitCall
    \/ DoCommitReturn
    \/ CreatePullRequestCall
    \/ CreatePullRequestReturn

Next ==
    \/ MainNext
    \/ OtherPush
    \/ OtherCreate

Spec == Init /\ [][Next]_vars

\* the process keeps running until it exits, and every call it waits for
\* returns
FairSpec == Init /\ [][Next]_vars /\ WF_vars(MainNext)

(***************************************************************************)
(* The Change Collector alone, over every status pair and file content:    *)
(* the run up to the return of addChanges.                                 *)
(***************************************************************************)
CollectStatuses ==
    {[p \in {"a.txt"} |-> FileStatus(pa)] : pa \in StatusPairs}
    \cup {[p \in Paths |-> FileStatus(IF p = "a.txt" THEN pa ELSE pb)] :
             pa \in StatusPairs, pb \in StatusPairs}

CollectDisks(wt) ==
    {[p \in Paths |-> IF p = "a.txt" THEN fa ELSE fb] :
        fa \in FilesFor(<<wt["a.txt"].Staging, wt["a.txt"].Worktree>>, Contents),
        fb \in IF "b.txt" \in DOMAIN wt
               THEN FilesFor(<<wt["b.txt"].Staging, wt["b.txt"].Worktree>>, {<<77>>})
               ELSE {NoFile}}

InitCollect ==
    \E wt \in CollectStatuses : \E dk \in CollectDisks(wt) :
        InitWith(wt, dk, {RepoOk}, {Some(MainTip)})

NextCollect ==
    \/ Parse
    \/ OpenRepository
    \/ AddChangesStep
    \/ AddChangesReturn

CollectSpec == InitCollect /\ [][NextCollect]_vars

(***************************************************************************)
(* Properties.                                                             *)
(***************************************************************************)
CallsOf(op) == {i \in DOMAIN calls : calls[i].op = op}
Called(op) == CallsOf(op) # {}
Answered(i) == i <= Len(replies)
TargetRef == HeadsRef(opts.BranchName)

\* the selection rule as the specification words it
SelectionRule(st) ==
    \/ st.Worktree = "M"
    \/ st.Staging = "A"
    \/ st.Staging = "M"

\* C1: on the new-branch path (CheckBranchExists returned false) CreateBranch
\* is invoked with baseOid = the default-branch tip getMainOid returned, and
\* the commit DoCommit submits carries that same value as expectedHeadOid,
\* whatever the local HEAD and local refs are.
C1_NewBranchExpectedHead ==
    branchExists = Some(FALSE) =>
        /\ \A i \in CallsOf("CreateBranch") : calls[i].input.Oid = Val(oid)
        /\ \A i \in CallsOf("DoCommit") :
              /\ Called("CreateBranch")
              /\ calls[i].input.ExpectedHeadOid = Val(oid)

\* C2: on the existing-branch path (CheckBranchExists returned true) the
\* commit's expectedHeadOid is the target branch's remote tip at resolution
\* time, also when the refresh of the local tracking reference failed.
C2_ExistingBranchExpectedHead ==
    branchExists = Some(TRUE) =>
        \A i \in CallsOf("DoCommit") :
            /\ tipAtResolution # None
            /\ calls[i].input.ExpectedHeadOid = Val(tipAtResolution)

\* C3: a commit submission whose expectedHeadOid differs from the branch's
\* remote tip when the service handles it is answered with an error (the
\* conflict, unless the transport failed first), the run ends fatally at the
\* commit, the remote's refs and commits stay as the other writer left them,
\* and the ChangeSet is unchanged.
C3_ConflictRejected ==
    [][ ( /\ pc = "DoCommit_wait"
          /\ pc' # "DoCommit_wait"
          /\ TargetRef \in DOMAIN remoteRefs
          /\ Request.input.ExpectedHeadOid # remoteRefs[TargetRef] )
        => ( /\ replies'[Len(replies')] \in {"conflict", "transport"}
             /\ exit' = Fatal("DoCommit")
             /\ remoteRefs' = remoteRefs
             /\ commits' = commits
             /\ changes' = changes
             /\ calls' = calls ) ]_vars

C3_Witness ==
    /\ exit = Fatal("DoCommit")
    /\ replies[Len(replies)] = "conflict"
    /\ otherWrites > 0
    /\ tipAtResolution # None
    /\ calls[Len(calls)].input.ExpectedHeadOid = Val(tipAtResolution)
    /\ remoteRefs[TargetRef] # Val(tipAtResolution)

\* C4: with a working-tree status of zero qualifying paths the run ends with
\* exit code 0 at the end of addChanges and issues no remote call at all.
C4_NoRemoteCall ==
    ( /\ status # None
      /\ \A p \in DOMAIN Val(status) : ~SelectionRule(Val(status)[p]) )
    => /\ calls = <<>>
       /\ inflight = None
       /\ replies = <<>>
       /\ pc \in {"addChanges", "exited"}
       /\ pc = "exited" => exit = Exit(0, "nothing", "addChanges")

C4_NothingToCommit ==
    /\ []C4_NoRemoteCall
    /\ ( ( /\ status # None
           /\ \A p \in DOMAIN Val(status) : ~SelectionRule(Val(status)[p]) )
         ~> exit = Exit(0, "nothing", "addChanges") )

C4_Witness ==
    /\ exit = Exit(0, "nothing", "addChanges")
    /\ DOMAIN Val(status) # {}
    /\ calls = <<>>

\* C5: a failure of getMainOid, CheckBranchExists, CreateBranch or DoCommit is
\* fatal: the failed call is the run's last remote call (nothing follows it,
\* nothing is retried) and the run has ended with a non-zero status.
C5_RemoteFailureFatal ==
    \A i \in DOMAIN replies :
        ( /\ replies[i] # "nil"
          /\ calls[i].op \in {"getMainOid", "CheckBranchExists", "CreateBranch",
                              "DoCommit"} )
        => /\ i = Len(calls)
           /\ inflight = None
           /\ Exited
           /\ exit = Fatal(calls[i].op)
           /\ ExitCode # 0

C5_Witness ==
    /\ Called("CreateBranch")
    /\ Answered(Len(calls))
    /\ calls[Len(calls)].op = "CreateBranch"
    /\ replies[Len(calls)] = "exists"

\* C6: with the pull-request option set, a failed pull-request mutation is
\* fatal: the run ends with a non-zero status, never in the success state.
C6_PullRequestFailureFatal ==
    \A i \in CallsOf("CreatePullRequest") :
        (Answered(i) /\ replies[i] # "nil")
        => /\ Exited
           /\ ExitCode # 0
           /\ Val(exit).why # "success"

\* C7: pull-request opening is invoked iff the pull-request option is set
\* (in a run whose commit succeeded, the only runs that get that far), and
\* its input is base "main", head the target branch, title the commit
\* message, with the repository id getMainOid returned.
C7_PullRequestIffOption ==
    /\ \A i \in CallsOf("CreatePullRequest") :
          /\ opts.PullRequest
          /\ calls[i].input.BaseRefName = "main"
          /\ calls[i].input.HeadRefName = opts.BranchName
          /\ calls[i].input.Title = opts.Message
          /\ calls[i].input.RepositoryID = repoId
          /\ repoId = Some(RepoIdOf(Split(opts.Repository, Sep)[1],
                                     Split(opts.Repository, Sep)[2]))
    /\ \A i \in CallsOf("DoCommit") :
          (Answered(i) /\ replies[i] = "nil" /\ pc \notin {"DoCommit_wait", "CreatePullRequest"})
          => (Called("CreatePullRequest") <=> opts.PullRequest)
    /\ ~opts.PullRequest => pulls = {}

C7_Witness ==
    /\ Called("CreatePullRequest")
    /\ exit = Exit(0, "success", "main")
    /\ pulls = {[RepositoryID |-> Some(RepoIdOf(KnownOwner, KnownName)),
                 BaseRefName |-> "main", HeadRefName |-> opts.BranchName,
                 Title |-> opts.Message]}

\* the place of each operation in the fixed order
Rank(op) ==
    CASE op = "getMainOid" -> 1
      [] op = "CheckBranchExists" -> 2
      [] op = "CreateBranch" -> 3
      [] op = "DoCommit" -> 4
      [] op = "CreatePullRequest" -> 5

\* C8: the run's remote calls are strictly sequential and in the fixed order
\* getMainOid, CheckBranchExists, (CreateBranch on the new-branch path only),
\* DoCommit, (CreatePullRequest): every call but the last has been answered
\* without error before the next is issued, so at most one is outstanding.
C8_SequentialFixedOrder ==
    /\ Len(replies) <= Len(calls)
    /\ Len(calls) - Len(replies) <= 1
    /\ (inflight # None) <=> (Len(calls) = Len(replies) + 1)
    /\ inflight # None => Request = calls[Len(calls)]
    /\ \A i \in DOMAIN calls : \A j \in DOMAIN calls :
          i < j => /\ Rank(calls[i].op) < Rank(calls[j].op)
                   /\ replies[i] = "nil"
    /\ Len(calls) >= 1 => calls[1].op = "getMainOid"
    /\ Len(calls) >= 2 => calls[2].op = "CheckBranchExists"
    /\ Len(calls) >= 3 => calls[3].op = IF branchExists = Some(FALSE)
                                        THEN "CreateBranch" ELSE "DoCommit"
    /\ Called("CreatePullRequest") => Called("DoCommit")

C8_Witness ==
    /\ Len(calls) = 5
    /\ calls[3].op = "CreateBranch"
    /\ calls[5].op = "CreatePullRequest"
    /\ inflight # None
    /\ otherWrites > 0

\* C9: when addChanges returns, the ChangeSet has exactly one entry for every
\* qualifying path, and its content is the base64 encoding of the bytes the
\* path has on disk, also for a path that cannot be read.
C9_OneEntryPerPathWithContent ==
    (status # None /\ todo = {} /\ pc # "open") =>
        \A p \in DOMAIN worktree :
            SelectionRule(worktree[p]) =>
                /\ Cardinality({i \in DOMAIN changes : changes[i].Path = p}) = 1
                /\ \A i \in DOMAIN changes :
                      changes[i].Path = p =>
                          changes[i].Contents = EncodeToString(disk[p].bytes)

\* C10: branch target resolution takes exactly one of two paths: CreateBranch
\* only when CheckBranchExists returned false, the fetch and the lookup of
\* the local tracking reference only when it returned true, never both, and
\* one of them in every run that reaches DoCommit.
C10_TwoDisjointPaths ==
    /\ Called("CreateBranch") => branchExists = Some(FALSE)
    /\ "Head" \in resolved => (branchExists = Some(FALSE) /\ Called("CreateBranch"))
    /\ (resolved \cap {"fetchRemote", "Reference"} # {}) => branchExists = Some(TRUE)
    /\ ~(Called("CreateBranch") /\ resolved \cap {"fetchRemote", "Reference"} # {})
    /\ Called("DoCommit") =>
          /\ Called("CreateBranch") \/ "Reference" \in resolved
          /\ (variant = "main23" /\ branchExists = Some(TRUE))
                => {"fetchRemote", "Reference"} \subseteq resolved

C10_Witness ==
    /\ Called("DoCommit")
    /\ {"fetchRemote", "Reference"} \subseteq resolved
    /\ ~Called("CreateBranch")


\* C11: on the existing-branch path of main (23-93) a failed fetch is not
\* fatal: the run goes on to read refs/remotes/origin/<branch> and submits
\* the commit with expectedHeadOid = that local (possibly stale) value; the
\* run is fatal at this step, with no commit submitted, exactly when the
\* local tracking reference is absent.
C11_FetchFailureNotFatal ==
    (variant = "main23" /\ fetchErr = Some("error")) =>
        /\ exit # Fatal("fetchRemote")
        /\ branchExists = Some(TRUE)
        /\ pc # "Reference" => "Reference" \in resolved
        /\ "Reference" \in resolved =>
              IF TrackingRef(opts.BranchName) \in DOMAIN localRefs
              THEN /\ revision = Some(localRefs[TrackingRef(opts.BranchName)])
                   /\ exit # Fatal("Reference")
                   /\ pc # "DoCommit" => Called("DoCommit")
                   /\ \A i \in CallsOf("DoCommit") :
                         calls[i].input.ExpectedHeadOid =
                             localRefs[TrackingRef(opts.BranchName)]
              ELSE /\ exit = Fatal("Reference")
                   /\ ~Called("DoCommit")

C11_Witness ==
    /\ variant = "main23"
    /\ fetchErr = Some("error")
    /\ Called("DoCommit")
    /\ otherWrites = 0
    /\ calls[Len(calls)].input.ExpectedHeadOid # Val(tipAtResolution)
    /\ replies[Len(replies)] = "conflict"


\* the run created the branch and its commit then failed
CreatedThenCommitFailed(i, j) ==
    /\ calls[i].op = "CreateBranch" /\ Answered(i) /\ replies[i] = "nil"
    /\ calls[j].op = "DoCommit" /\ Answered(j) /\ replies[j] # "nil"

\* C12 as stated: when CreateBranch succeeded and DoCommit then fails, the run
\* issues no further remote call, and the branch it created still exists on
\* the remote, pointing at the base object id it was created at.
C12_BranchLeftAtBase ==
    \A i \in DOMAIN calls : \A j \in DOMAIN calls :
        CreatedThenCommitFailed(i, j) =>
            /\ j = Len(calls)
            /\ exit = Fatal("DoCommit")
            /\ TargetRef \in DOMAIN remoteRefs
            /\ remoteRefs[TargetRef] = calls[i].input.Oid

\* C12, amended: when CreateBranch succeeded and DoCommit then fails, the run
\* issues no further remote call and ends fatally at the commit without
\* having committed; the branch it created still exists on the remote, and
\* points at the base object id it was created at unless another writer has
\* pushed to it since.
C12_NoPartialRecovery ==
    \A i \in DOMAIN calls : \A j \in DOMAIN calls :
        CreatedThenCommitFailed(i, j) =>
            /\ j = Len(calls)
            /\ inflight = None
            /\ exit = Fatal("DoCommit")
            /\ commits = <<>>
            /\ TargetRef \in DOMAIN remoteRefs
            /\ (remoteRefs[TargetRef] = calls[i].input.Oid \/ otherWrites > 0)

C12_Witness ==
    /\ \E i \in DOMAIN calls : \E j \in DOMAIN calls : CreatedThenCommitFailed(i, j)
    /\ otherWrites = 0
    /\ exit = Fatal("DoCommit")
    /\ remoteRefs[TargetRef] = Val(oid)
    /\ opts.PullRequest


Operations ==
    {"getMainOid", "CheckBranchExists", "CreateBranch", "DoCommit", "CreatePullRequest"}

\* C13: every remote operation is issued at most once in a run, whatever it
\* returned: at most one resolve query, one branch-existence query, one
\* create-ref, one commit and one pull-request mutation; the run makes at
\* most one commit and opens at most one pull request.
C13_AtMostOnce ==
    /\ \A i \in DOMAIN calls : calls[i].op \in Operations
    /\ \A op \in Operations : Cardinality(CallsOf(op)) <= 1
    /\ Len(commits) <= 1
    /\ Cardinality(pulls) <= 1

C13_Witness ==
    /\ \A op \in Operations : Cardinality(CallsOf(op)) = 1
    /\ exit = Fatal("CreatePullRequest")
    /\ Len(commits) = 1
    /\ pulls = {}


Included(p) == \E i \in DOMAIN changes : changes[i].Path = p

\* a status that is only a deletion, a rename or an untracked file
OnlyDeletedRenamedUntracked(st) ==
    <<st.Staging, st.Worktree>> \in
        { <<"D", " ">>, <<" ", "D">>, <<"R", " ">>, <<"?", "?">> }

\* C14: a path of the status is in the ChangeSet iff its worktree state is
\* modified, or its staged state is added, or its staged state is modified;
\* a path that is only deleted, renamed or untracked is never in it.
C14_SelectionRule ==
    /\ \A i \in DOMAIN changes :
          /\ changes[i].Path \in DOMAIN worktree
          /\ SelectionRule(worktree[changes[i].Path])
    /\ \A p \in DOMAIN worktree :
          OnlyDeletedRenamedUntracked(worktree[p]) => ~Included(p)
    /\ (status # None /\ todo = {} /\ pc # "open") =>
          \A p \in DOMAIN worktree : Included(p) <=> SelectionRule(worktree[p])

C14_Witness ==
    /\ pc = "getMainOid"
    /\ DOMAIN worktree = Paths
    /\ worktree["a.txt"] = [Staging |-> "M", Worktree |-> "D"]
    /\ worktree["b.txt"] = [Staging |-> "R", Worktree |-> " "]
    /\ Included("a.txt")
    /\ ~Included("b.txt")


\* C15: CheckBranchExists returns true iff the remote has the ref
\* refs/heads/<branch> when it answers (it reports the ref's name, empty for
\* no ref), also for a branch that was created just before; and when the
\* query fails the error is what main gets: the run ends fatally at the
\* check, and the false that comes with the error is never taken for an
\* answer.
C15_BranchExistsIffRef ==
    [][ (pc = "CheckBranchExists_wait" /\ pc' # "CheckBranchExists_wait") =>
        /\ Request.branchName = TargetRef
        /\ replies'[Len(replies')] = "nil" =>
              /\ branchExists' = Some(TargetRef \in DOMAIN remoteRefs)
              /\ exit' = None
        /\ replies'[Len(replies')] # "nil" =>
              /\ exit' = Fatal("CheckBranchExists")
              /\ calls' = calls ]_vars

C15_Witness ==
    /\ branchExists = Some(TRUE)
    /\ otherWrites = 1
    /\ remoteRefs[TargetRef] = MainTip
    /\ remoteRefs[TargetRef] = Val(oid)
    /\ pc = "DoCommit"


HasSeparator(s) == \E i \in DOMAIN s : s[i] = "/"

\* C16: with a repository identifier that has no "/" and a non-empty
\* ChangeSet, the run ends in the index-out-of-range panic of getMainOid's
\* variables (exit status 2, no log.Fatalf diagnostic), and no remote call
\* is issued before it.
C16_MalformedRepositoryPanics ==
    (~HasSeparator(opts.Repository) /\ changes # <<>> /\ pc # "addChanges") =>
        /\ calls = <<>>
        /\ inflight = None
        /\ pc \in {"getMainOid", "exited"}
        /\ pc = "exited" => exit = Exit(2, "panic", "getMainOid")

C16_Witness ==
    /\ ~HasSeparator(opts.Repository)
    /\ Len(changes) = 2
    /\ exit = Exit(2, "panic", "getMainOid")
    /\ calls = <<>>


\* call `op` was issued before call m and returned without error
SucceededBefore(op, m) ==
    \E k \in DOMAIN calls : k < m /\ calls[k].op = op /\ replies[k] = "nil"

\* C17: a mutation is issued only after its prerequisites succeeded in the
\* same run: every create-ref, commit and pull-request mutation comes after a
\* successful getMainOid and a successful CheckBranchExists; the commit goes
\* to the branch that CheckBranchExists reported as existing or that a
\* successful CreateBranch created; the pull request comes after a successful
\* commit.
C17_MutationsAfterPrerequisites ==
    /\ \A m \in DOMAIN calls :
          calls[m].op \in {"CreateBranch", "DoCommit", "CreatePullRequest"} =>
              /\ SucceededBefore("getMainOid", m)
              /\ SucceededBefore("CheckBranchExists", m)
    /\ \A m \in CallsOf("CreateBranch") : calls[m].input.Name = TargetRef
    /\ \A m \in CallsOf("DoCommit") :
          /\ calls[m].input.Branch.BranchName = opts.BranchName
          /\ \E k \in CallsOf("CheckBranchExists") : calls[k].branchName = TargetRef
          /\ \/ branchExists = Some(TRUE)
             \/ SucceededBefore("CreateBranch", m)
    /\ \A m \in CallsOf("CreatePullRequest") : SucceededBefore("DoCommit", m)

C17_Witness ==
    /\ variant = "main176"
    /\ ~Called("CreateBranch")
    /\ Called("CreatePullRequest")
    /\ exit = Exit(0, "success", "main")
    /\ pulls # {}
    /\ otherWrites > 0


\* main's positions in program order
Position(p) ==
    CASE p = "parse" -> 1
      [] p = "open" -> 2
      [] p = "addChanges" -> 3
      [] p = "getMainOid" -> 4
      [] p = "getMainOid_wait" -> 5
      [] p = "CheckBranchExists" -> 6
      [] p = "CheckBranchExists_wait" -> 7
      [] p = "CreateBranch" -> 8
      [] p = "CreateBranch_wait" -> 9
      [] p = "Head" -> 10
      [] p = "fetchRemote" -> 11
      [] p = "Reference" -> 12
      [] p = "DoCommit" -> 13
      [] p = "DoCommit_wait" -> 14
      [] p = "CreatePullRequest" -> 15
      [] p = "CreatePullRequest_wait" -> 16
      [] p = "exited" -> 17

\* the ways a run ends: with status 0 on success, on nothing to commit and
\* on --help; with a non-zero status on a fatal error, a flag error and the
\* panic of a malformed repository identifier
Terminal ==
    /\ pc = "exited"
    /\ Exited
    /\ \/ ExitCode = 0 /\ Val(exit).why \in {"success", "nothing", "help"}
       \/ ExitCode # 0 /\ Val(exit).why \in {"fatal", "flagerr", "panic"}

\* C18: when every remote call and the fetch return, every run reaches a
\* terminal state and stays there; main never goes back to an earlier
\* position (no loop, no retry), the range loop of addChanges apart, which
\* visits each name once.
C18_Terminates ==
    /\ [][ /\ Position(pc') >= Position(pc)
           /\ (pc' = pc /\ pc # "addChanges") => UNCHANGED <<localVars, netVars, exit>>
           /\ (pc' = pc /\ pc = "addChanges") => Cardinality(todo') < Cardinality(todo)
         ]_<<pc, localVars, netVars, exit>>
    /\ <>[]Terminal

C18_Witness ==
    /\ Terminal
    /\ exit = Exit(0, "success", "main")
    /\ variant = "main23"
    /\ fetchErr = Some("error")
    /\ Called("CreatePullRequest")
    /\ otherWrites = MaxOtherWrites

====
